---- MODULE Spec2Model ----
(***************************************************************************)
(* Conway's Game of Life on a toroidal grid: the Cell and Grid classes of  *)
(* src/models (cell.py, grid.py) and the reference patterns of             *)
(* src/utils/patterns.py, as a state machine over one Grid object.         *)
(***************************************************************************)
EXTENDS Integers, Sequences, FiniteSets, TLC

VARIABLES
    width,       \* Grid.width
    height,      \* Grid.height
    grid,        \* Grid._grid: grid[y][x] is the _alive flag of the Cell in row y, column x
    generation,  \* Grid._generation
    last,        \* the most recent call: its name, arguments, result, error and the state before it
    advances,    \* history: next_generation calls since construction or the last clear
    ctor,        \* history: the arguments the grid was constructed with
    iter,        \* the generator object a get_live_cells() call returned to the caller
    anim         \* the renderer animating the grid: its running flag and its place in start_animation

\* The objects outside the Grid that the caller holds.
outside == <<iter, anim>>

vars == <<width, height, grid, generation, last, advances, ctor, outside>>

----------------------------------------------------------------------------
(* Bounds of the model. *)

MaxW == 2          \* Spec: widths 1 .. MaxW
MaxH == 2          \* Spec: heights 1 .. MaxH
MaxGen == 2        \* Spec: the generation counter stays within 0 .. MaxGen
CallW == 3         \* SpecCall: widths 1 .. CallW
CallH == 2         \* SpecCall: heights 1 .. CallH
CallGen == 1       \* SpecCall: the call starts at a generation in 0 .. CallGen
CellW == 2         \* SpecCell: widths 1 .. CellW
CellH == 2         \* SpecCell: heights 1 .. CellH
MaxCoord == 3      \* SpecCell: coordinates -MaxCoord .. MaxCoord
MaxN == 9          \* SpecCell: neighbour counts -1 .. MaxN
PatW == 2          \* SpecFromPattern: patterns 1 .. PatW wide
PatH == 2          \* SpecFromPattern: patterns 1 .. PatH high
PatSlack == 2      \* SpecFromPattern: explicit sizes up to the pattern's + PatSlack
SideExtra == 1     \* SpecPattern: explicit sizes from the smallest to SideExtra more
MaxPatGen == 60    \* SpecPattern: the generation counter stays within 0 .. MaxPatGen
CtorMax == 3       \* SpecConstruct: sizes -CtorMax .. CtorMax
ScanW == 2         \* SpecScan: widths 1 .. ScanW
ScanH == 2         \* SpecScan: heights 1 .. ScanH
IterW == 2         \* SpecIter: widths 1 .. IterW
IterH == 1         \* SpecIter: heights 1 .. IterH
IterGen == 1       \* SpecIter: the generation counter stays within 0 .. IterGen
TogW == 2          \* SpecToggle: widths 1 .. TogW
TogH == 1          \* SpecToggle: heights 1 .. TogH
TogCoord == 2      \* SpecToggle: coordinates -TogCoord .. TogCoord
AliasW == 2        \* SpecAlias: widths 1 .. AliasW
AliasH == 2        \* SpecAlias: heights 1 .. AliasH
AliasGen == 1      \* SpecAlias: the generation counter stays within 0 .. AliasGen
FrameW == 2        \* SpecFrame: widths 1 .. FrameW
FrameH == 2        \* SpecFrame: heights 1 .. FrameH
FrameCoord == 2    \* SpecFrame: coordinates -FrameCoord .. FrameCoord
FrameGen == 1      \* SpecFrame: the call starts at a generation in 0 .. FrameGen
ShiftW == 3        \* SpecShift: widths 1 .. ShiftW
ShiftH == 2        \* SpecShift: heights 1 .. ShiftH
ShiftGen == 1      \* SpecShift: the call starts at a generation in 0 .. ShiftGen
WrapW == 3         \* SpecWrapPattern: patterns 1 .. WrapW wide
WrapH == 2         \* SpecWrapPattern: patterns 1 .. WrapH high
AnimW == 2         \* SpecAnimation: widths 1 .. AnimW
AnimH == 1         \* SpecAnimation: heights 1 .. AnimH
AnimGens == 2      \* SpecAnimation: generation limits 0 .. AnimGens; an unlimited run is cut after AnimGens + 1 frames

----------------------------------------------------------------------------
(* Python primitives. *)

\* a % n for n > 0: Python's remainder has the sign of the divisor, as TLA+'s.
PyMod(a, n) == a % n

\* a // n for n > 0: floor division.
PyFloorDiv(a, n) == a \div n

\* seq[i] on a list of length n: a negative i counts from the end.
ListIndex(i, n) == IF i < 0 THEN i + n ELSE i

\* seq[i] raises IndexError unless -n <= i < n.
Indexable(i, n) == -n <= i /\ i < n

----------------------------------------------------------------------------
(* Cell (cell.py). A Cell is its _alive flag. *)

\* Cell.__init__ with the default argument.
NewCell == FALSE

\* A toggle that brings the cell to life whatever it was.
CellRevive(alive) == TRUE

\* Cell.toggle: the new state, which is also the value returned.
CellToggle(alive) == ~alive

\* will_be_alive without rule 3 (overpopulation).
WillBeAliveCrowded(alive, live_neighbors) ==
    IF alive THEN 2 <= live_neighbors ELSE live_neighbors = 3

\* will_be_alive where a live cell survives with two neighbours only.
WillBeAliveOnlyTwo(alive, live_neighbors) ==
    IF alive THEN live_neighbors = 2 ELSE live_neighbors = 3

\* Cell.will_be_alive
WillBeAlive(alive, live_neighbors) ==
    IF alive
    THEN 2 <= live_neighbors /\ live_neighbors <= 3
    ELSE live_neighbors = 3

----------------------------------------------------------------------------
(* Grid (grid.py): the methods as functions of the storage g of a w x h grid. *)

\* Grid.__init__: height rows of width dead cells.
NewGrid(w, h) == [y \in 0 .. h - 1 |-> [x \in 0 .. w - 1 |-> NewCell]]

\* The coordinates used as they come, without wrapping.
Unnormalized(w, h, x, y) == <<x, y>>

\* The normalisation shared by get_cell, set_cell and toggle_cell.
Normalize(w, h, x, y) == <<PyMod(x, w), PyMod(y, h)>>

\* Whether self._grid[y][x] at the normalised coordinate raises no IndexError.
CanIndex(w, h, x, y) ==
    LET n == Normalize(w, h, x, y)
    IN  Indexable(n[2], h) /\ Indexable(n[1], w)

\* The (column, row) of the Cell that self._grid[y][x] addresses.
Address(w, h, x, y) ==
    LET n == Normalize(w, h, x, y)
    IN  <<ListIndex(n[1], w), ListIndex(n[2], h)>>

\* Grid.get_cell: the state of the Cell returned.
GetCell(g, w, h, x, y) ==
    LET a == Address(w, h, x, y) IN g[a[2]][a[1]]

\* A set_cell that writes the whole row of the cell.
SetCellRow(g, w, h, x, y, alive) ==
    LET a == Address(w, h, x, y) IN [g EXCEPT ![a[2]] = [c \in DOMAIN @ |-> alive]]

\* Grid.set_cell
SetCell(g, w, h, x, y, alive) ==
    LET a == Address(w, h, x, y) IN [g EXCEPT ![a[2]][a[1]] = alive]

\* Grid.toggle_cell: the storage afterwards; the value returned is the new state.
ToggleCell(g, w, h, x, y) ==
    LET a == Address(w, h, x, y) IN [g EXCEPT ![a[2]][a[1]] = CellToggle(@)]

\* The (dx, dy) pairs in the order of the loops of count_live_neighbors.
Offsets ==
    << <<-1, -1>>, <<0, -1>>, <<1, -1>>,
       <<-1,  0>>, <<0,  0>>, <<1,  0>>,
       <<-1,  1>>, <<0,  1>>, <<1,  1>> >>

RECURSIVE CountFrom(_, _, _, _, _, _)
\* The iterations i, i+1, ... of the loops of count_live_neighbors.
CountFrom(g, w, h, x, y, i) ==
    IF i > Len(Offsets) THEN 0
    ELSE LET dx == Offsets[i][1]
             dy == Offsets[i][2]
             nx == PyMod(x + dx, w)
             ny == PyMod(y + dy, h)
         IN  IF dx = 0 /\ dy = 0
             THEN CountFrom(g, w, h, x, y, i + 1)
             ELSE (IF g[ListIndex(ny, h)][ListIndex(nx, w)] THEN 1 ELSE 0)
                  + CountFrom(g, w, h, x, y, i + 1)

\* count_live_neighbors that ignores the neighbours beyond the edges.
CountNoWrap(g, w, h, x, y) ==
    Cardinality({d \in {-1, 0, 1} \X {-1, 0, 1} :
                    /\ d # <<0, 0>>
                    /\ x + d[1] \in 0 .. w - 1
                    /\ y + d[2] \in 0 .. h - 1
                    /\ g[y + d[2]][x + d[1]]})

\* count_live_neighbors that counts each live neighbouring cell once, however
\* many offsets lead to it.
CountDistinct(g, w, h, x, y) ==
    Cardinality({c \in (0 .. w - 1) \X (0 .. h - 1) :
                    /\ g[c[2]][c[1]]
                    /\ \E d \in {-1, 0, 1} \X {-1, 0, 1} :
                          /\ d # <<0, 0>>
                          /\ c = <<(x + d[1]) % w, (y + d[2]) % h>>})

\* Grid.count_live_neighbors
CountLiveNeighbors(g, w, h, x, y) == CountFrom(g, w, h, x, y, 1)

\* The first pass of next_generation: the next_states dictionary. Its keys are
\* inserted in the order of "for y in range(height): for x in range(width)".
NextStates(g, w, h) ==
    [c \in (0 .. w - 1) \X (0 .. h - 1) |->
        WillBeAlive(GetCell(g, w, h, c[1], c[2]),
                    CountLiveNeighbors(g, w, h, c[1], c[2]))]

\* In the loops below, a storage with no rows (g = <<>>) has nothing to visit;
\* the test also makes TLC evaluate the storage built so far before it goes on.

RECURSIVE ApplyRow(_, _, _, _, _, _)
\* The second pass of next_generation over the keys (x, y), (x+1, y), ... of row y.
ApplyRow(g, w, h, ns, y, x) ==
    IF x >= w \/ g = <<>> THEN g
    ELSE ApplyRow(SetCell(g, w, h, x, y, ns[<<x, y>>]), w, h, ns, y, x + 1)

RECURSIVE ApplyStates(_, _, _, _, _)
\* The second pass of next_generation from row y on (a dictionary iterates in
\* insertion order).
ApplyStates(g, w, h, ns, y) ==
    IF y >= h \/ g = <<>> THEN g
    ELSE ApplyStates(ApplyRow(g, w, h, ns, y, 0), w, h, ns, y + 1)

RECURSIVE InPlaceRow(_, _, _, _, _)
InPlaceRow(g, w, h, y, x) ==
    IF x >= w \/ g = <<>> THEN g
    ELSE InPlaceRow(SetCell(g, w, h, x, y,
                            WillBeAlive(GetCell(g, w, h, x, y),
                                        CountLiveNeighbors(g, w, h, x, y))),
                    w, h, y, x + 1)

RECURSIVE InPlaceFrom(_, _, _, _)
InPlaceFrom(g, w, h, y) ==
    IF y >= h \/ g = <<>> THEN g
    ELSE InPlaceFrom(InPlaceRow(g, w, h, y, 0), w, h, y + 1)

\* next_generation as a single row-major pass that updates each cell at once.
NextGenerationInPlace(g, w, h) == InPlaceFrom(g, w, h, 0)

\* Grid.next_generation: the storage afterwards.
NextGenerationGrid(g, w, h) == ApplyStates(g, w, h, NextStates(g, w, h), 0)

\* next_generation without the increment.
NoIncrement(gen) == gen

\* Grid.next_generation: the generation counter afterwards.
NextGenerationCounter(gen) == gen + 1

RECURSIVE ClearRow(_, _, _, _, _)
\* The inner loop of clear, from column x of row y on.
ClearRow(g, w, h, y, x) ==
    IF x >= w \/ g = <<>> THEN g
    ELSE ClearRow(SetCell(g, w, h, x, y, FALSE), w, h, y, x + 1)

RECURSIVE ClearFrom(_, _, _, _)
\* The outer loop of clear, from row y on.
ClearFrom(g, w, h, y) ==
    IF y >= h \/ g = <<>> THEN g
    ELSE ClearFrom(ClearRow(g, w, h, y, 0), w, h, y + 1)

\* clear that stops after the first row.
ClearFirstRow(g, w, h) == ClearRow(g, w, h, 0, 0)

\* Grid.clear: the storage afterwards.
ClearGrid(g, w, h) == ClearFrom(g, w, h, 0)

\* Grid.clear: the generation counter afterwards.
ClearCounter == 0

\* Grid.get_live_cells, fully consumed: the set of coordinates yielded.
LiveCells(g, w, h) ==
    {c \in (0 .. w - 1) \X (0 .. h - 1) : GetCell(g, w, h, c[1], c[2])}

\* A scan that runs down the columns instead of along the rows.
RECURSIVE FirstLiveByColumn(_, _, _, _, _)
FirstLiveByColumn(g, w, h, y, x) ==
    IF x >= w THEN <<>>
    ELSE IF y >= h THEN FirstLiveByColumn(g, w, h, 0, x + 1)
    ELSE IF GetCell(g, w, h, x, y) THEN <<x, y>>
    ELSE FirstLiveByColumn(g, w, h, y + 1, x)

\* Grid.get_live_cells, resumed with the loop variables at (x, y): the loops
\* run on, reading each cell through get_cell, up to the next yield; <<>>
\* when they run out (StopIteration).
RECURSIVE FirstLive(_, _, _, _, _)
FirstLive(g, w, h, y, x) ==
    IF y >= h THEN <<>>
    ELSE IF x >= w THEN FirstLive(g, w, h, y + 1, 0)
    ELSE IF GetCell(g, w, h, x, y) THEN <<x, y>>
    ELSE FirstLive(g, w, h, y, x + 1)

----------------------------------------------------------------------------
(* Patterns (patterns.py): lists of rows of booleans. *)

\* Patterns.glider
Glider ==
    << <<FALSE, TRUE, FALSE>>,
       <<FALSE, FALSE, TRUE>>,
       <<TRUE, TRUE, TRUE>> >>

\* Patterns.blinker
Blinker ==
    << <<FALSE, FALSE, FALSE>>,
       <<TRUE, TRUE, TRUE>>,
       <<FALSE, FALSE, FALSE>> >>

\* Patterns.block
Block ==
    << <<TRUE, TRUE>>,
       <<TRUE, TRUE>> >>

----------------------------------------------------------------------------
(* Grid.from_pattern. An optional argument is <<>> (None) or <<value>>. *)

\* The margin added to the pattern's size when width or height is None.
DefaultMargin == 10

PatternHeight(pattern) == Len(pattern)

PatternWidth(pattern) == IF PatternHeight(pattern) > 0 THEN Len(pattern[1]) ELSE 0

\* "if width is None: width = pattern_width + 10", and the same for height.
SizeOrDefault(opt, psize) == IF opt = <<>> THEN psize + DefaultMargin ELSE opt[1]

\* The starting position rounded up instead of down.
StartOffsetCeil(size, psize) == PyFloorDiv(size - psize + 1, 2)

\* A starting position that is never negative.
StartOffsetClamped(size, psize) ==
    IF size < psize THEN 0 ELSE PyFloorDiv(size - psize, 2)

\* start_x and start_y
StartOffset(size, psize) == PyFloorDiv(size - psize, 2)

RECURSIVE PlaceFrom(_, _, _, _, _, _, _, _)
\* The loops "for y, row in enumerate(pattern): for x, cell_state in
\* enumerate(row)" from row y, column x on (both counted from 0).
PlaceFrom(g, w, h, pattern, sx, sy, y, x) ==
    IF y >= Len(pattern) THEN g
    ELSE IF x >= Len(pattern[y + 1])
         THEN PlaceFrom(g, w, h, pattern, sx, sy, y + 1, 0)
         ELSE PlaceFrom(IF pattern[y + 1][x + 1]
                        THEN SetCell(g, w, h, sx + x, sy + y, TRUE)
                        ELSE g,
                        w, h, pattern, sx, sy, y, x + 1)

\* Grid.from_pattern(pattern, width, height): the grid returned.
FromPattern(pattern, optw, opth) ==
    LET pw == PatternWidth(pattern)
        ph == PatternHeight(pattern)
        w  == SizeOrDefault(optw, pw)
        h  == SizeOrDefault(opth, ph)
    IN  [width |-> w, height |-> h,
         grid |-> PlaceFrom(NewGrid(w, h), w, h, pattern,
                            StartOffset(w, pw), StartOffset(h, ph), 0, 0),
         generation |-> 0]

----------------------------------------------------------------------------
(* The record of a call. *)

\* op: the method; x, y, alive, n: its arguments; ret: the value returned;
\* err: the exception raised, or "none"; addr: the (column, row) of the Cell
\* addressed; pre: the storage before the call; pregen: the counter before it.
Call(op, x, y, alive, n, ret, err, addr, pre) ==
    [op |-> op, x |-> x, y |-> y, alive |-> alive, n |-> n, ret |-> ret,
     err |-> err, addr |-> addr, pre |-> pre, pregen |-> generation]

NoAddr == <<>>

NoGrid == <<>>

\* No call yet on a grid that exists.
Idle == Call("-", 0, 0, FALSE, 0, FALSE, "none", NoAddr, NoGrid)

\* No grid yet: the constructor has not run.
Unbuilt == [Idle EXCEPT !.op = "unbuilt", !.pregen = 0]

\* The constructor call Grid(w, h).
CtorGrid(w, h) ==
    [kind |-> "Grid", pattern |-> <<>>, width |-> <<w>>, height |-> <<h>>]

\* The call Grid.from_pattern(pattern, width, height).
CtorFromPattern(pattern, optw, opth) ==
    [kind |-> "from_pattern", pattern |-> pattern, width |-> optw, height |-> opth]

----------------------------------------------------------------------------
(* The operations of a Grid. *)

\* A generator object: suspended before the cell (x, y) of the scan, with the
\* coordinates it has yielded so far (history) and the storage at the time
\* get_live_cells() was called (history).
Generator(state, x, y, out, snap) ==
    [state |-> state, x |-> x, y |-> y, out |-> out, snap |-> snap]

NoIter == Generator("none", 0, 0, <<>>, NoGrid)

\* A renderer on which start_animation has not been called. frames lists the
\* generations render_frame has shown (history); seed and g0 are the storage
\* and the generation at the start of the animation (history); stopped tells
\* that a stop request has arrived (history).
NewRenderer(renderer) ==
    [renderer |-> renderer, pc |-> "idle", running |-> FALSE,
     generations |-> <<>>, gen_count |-> 0,
     new_states |-> <<>>, applied |-> 0,
     frames |-> <<>>, seed |-> NoGrid, g0 |-> 0, stopped |-> FALSE]

NoAnim == NewRenderer("none")

\* No object outside the Grid exists.
Alone == iter = NoIter /\ anim = NoAnim

\* grid = Grid(ctor.width, ctor.height): range(n) is empty for n <= 0, so the
\* constructor builds a storage for any integers and raises nothing.
GridStep ==
    /\ last = Unbuilt
    /\ ctor.kind = "Grid"
    /\ width' = ctor.width[1]
    /\ height' = ctor.height[1]
    /\ grid' = NewGrid(ctor.width[1], ctor.height[1])
    /\ generation' = 0
    /\ advances' = 0
    /\ last' = [Unbuilt EXCEPT !.op = "Grid"]
    /\ UNCHANGED <<ctor, outside>>

\* grid = Grid.from_pattern(ctor.pattern, ctor.width, ctor.height)
FromPatternStep ==
    /\ last = Unbuilt
    /\ ctor.kind = "from_pattern"
    /\ LET made == FromPattern(ctor.pattern, ctor.width, ctor.height)
       IN  /\ width' = made.width
           /\ height' = made.height
           /\ grid' = made.grid
           /\ generation' = made.generation
    /\ advances' = 0
    /\ last' = [Unbuilt EXCEPT !.op = "from_pattern"]
    /\ UNCHANGED <<ctor, outside>>

\* grid.get_cell(x, y).is_alive
GetCellStep(x, y) ==
    /\ last' = IF CanIndex(width, height, x, y)
               THEN Call("get_cell", x, y, FALSE, 0,
                         GetCell(grid, width, height, x, y), "none",
                         Address(width, height, x, y), grid)
               ELSE Call("get_cell", x, y, FALSE, 0, FALSE, "IndexError",
                         NoAddr, grid)
    /\ UNCHANGED <<width, height, grid, generation, advances, ctor, outside>>

\* grid.set_cell(x, y, alive)
SetCellStep(x, y, alive) ==
    /\ IF CanIndex(width, height, x, y)
       THEN /\ grid' = SetCell(grid, width, height, x, y, alive)
            /\ last' = Call("set_cell", x, y, alive, 0, FALSE, "none",
                            Address(width, height, x, y), NoGrid)
       ELSE /\ grid' = grid
            /\ last' = Call("set_cell", x, y, alive, 0, FALSE, "IndexError",
                            NoAddr, NoGrid)
    /\ UNCHANGED <<width, height, generation, advances, ctor, outside>>

\* grid.toggle_cell(x, y)
ToggleCellStep(x, y) ==
    /\ IF CanIndex(width, height, x, y)
       THEN /\ grid' = ToggleCell(grid, width, height, x, y)
            /\ last' = Call("toggle_cell", x, y, FALSE, 0,
                            CellToggle(GetCell(grid, width, height, x, y)),
                            "none", Address(width, height, x, y), grid)
       ELSE /\ grid' = grid
            /\ last' = Call("toggle_cell", x, y, FALSE, 0, FALSE, "IndexError",
                            NoAddr, NoGrid)
    /\ UNCHANGED <<width, height, generation, advances, ctor, outside>>

\* grid.get_cell(x, y).will_be_alive(n)
WillBeAliveStep(x, y, n) ==
    /\ last' = Call("will_be_alive", x, y, FALSE, n,
                    WillBeAlive(GetCell(grid, width, height, x, y), n), "none",
                    Address(width, height, x, y), grid)
    /\ UNCHANGED <<width, height, grid, generation, advances, ctor, outside>>

\* grid.count_live_neighbors(x, y)
CountLiveNeighborsStep(x, y) ==
    /\ last' = Call("count_live_neighbors", x, y, FALSE, 0,
                    CountLiveNeighbors(grid, width, height, x, y), "none",
                    NoAddr, grid)
    /\ UNCHANGED <<width, height, grid, generation, advances, ctor, outside>>

\* grid.next_generation(), while the counter is below maxgen
Advance(maxgen) ==
    /\ last # Unbuilt
    /\ generation < maxgen
    /\ grid' = NextGenerationGrid(grid, width, height)
    /\ generation' = NextGenerationCounter(generation)
    /\ advances' = advances + 1
    /\ last' = Call("next_generation", 0, 0, FALSE, 0, FALSE, "none", NoAddr, grid)
    /\ UNCHANGED <<width, height, ctor, outside>>

\* grid.clear()
ClearStep ==
    /\ grid' = ClearGrid(grid, width, height)
    /\ generation' = ClearCounter
    /\ advances' = 0
    /\ last' = Call("clear", 0, 0, FALSE, 0, FALSE, "none", NoAddr, grid)
    /\ UNCHANGED <<width, height, ctor, outside>>

\* it = grid.get_live_cells(): a generator function only creates the
\* generator object; no line of its body runs before the first next(it).
GetLiveCellsStep ==
    /\ iter' = Generator("suspended", 0, 0, <<>>, grid)
    /\ last' = Call("get_live_cells", 0, 0, FALSE, 0, FALSE, "none", NoAddr, NoGrid)
    /\ UNCHANGED <<width, height, grid, generation, advances, ctor, anim>>

\* next(it): the body runs from where it was suspended to its next yield,
\* reading the grid as it is now.
NextItemStep ==
    /\ iter.state = "suspended"
    /\ LET c == FirstLive(grid, width, height, iter.y, iter.x)
       IN  IF c = <<>>
           THEN /\ iter' = [iter EXCEPT !.state = "done", !.x = 0, !.y = height]
                /\ last' = Call("next", 0, 0, FALSE, 0, FALSE, "StopIteration",
                                NoAddr, NoGrid)
           ELSE /\ iter' = [iter EXCEPT !.x = c[1] + 1, !.y = c[2],
                                        !.out = Append(@, c)]
                /\ last' = Call("next", c[1], c[2], FALSE, 0, FALSE, "none",
                                NoAddr, NoGrid)
    /\ UNCHANGED <<width, height, grid, generation, advances, ctor, anim>>

\* cell = grid.get_cell(x, y) returned the Cell object stored at last.addr,
\* and the caller assigns cell.is_alive = state (the property setter).
CellSetStep(state) ==
    /\ last.op = "get_cell"
    /\ last.err = "none"
    /\ grid' = [grid EXCEPT ![last.addr[2]][last.addr[1]] = state]
    /\ last' = Call("Cell.is_alive", last.x, last.y, state, 0, FALSE, "none",
                    last.addr, grid)
    /\ UNCHANGED <<width, height, generation, advances, ctor, outside>>

\* cell = grid.get_cell(x, y); cell.toggle()
CellToggleStep ==
    /\ last.op = "get_cell"
    /\ last.err = "none"
    /\ grid' = [grid EXCEPT ![last.addr[2]][last.addr[1]] = CellToggle(@)]
    /\ last' = Call("Cell.toggle", last.x, last.y, FALSE, 0,
                    CellToggle(grid[last.addr[2]][last.addr[1]]), "none",
                    last.addr, grid)
    /\ UNCHANGED <<width, height, generation, advances, ctor, outside>>

----------------------------------------------------------------------------
(* The animation loops: ConsoleRenderer.start_animation (renderer.py) and  *)
(* PygameRenderer.start_animation (pygame_renderer.py), one action per     *)
(* statement of the loop; next_generation is taken apart into its first    *)
(* pass, the set_cell calls of its second pass and the increment, since a  *)
(* KeyboardInterrupt can be raised between any two of them.                *)

\* A while condition that lets the loop run once more at the limit.
WhileInclusive(running, generations, gen_count) ==
    running /\ (generations = <<>> \/ gen_count <= generations[1])

\* while self.running and (generations is None or gen_count < generations)
WhileCondition(running, generations, gen_count) ==
    running /\ (generations = <<>> \/ gen_count < generations[1])

\* renderer.start_animation(generations, update_callback), up to the loop
StartAnimation(generations) ==
    /\ anim.renderer # "none"
    /\ anim.pc = "idle"
    /\ anim' = [anim EXCEPT !.pc = "while", !.running = TRUE,
                            !.generations = generations, !.gen_count = 0,
                            !.seed = grid, !.g0 = generation]
    /\ UNCHANGED <<width, height, grid, generation, last, advances, ctor, iter>>

\* The test of the while loop; an unlimited run is followed for AnimGens + 1 frames.
WhileTest ==
    /\ anim.pc = "while"
    /\ anim.generations = <<>> => anim.gen_count <= AnimGens
    /\ anim' = IF WhileCondition(anim.running, anim.generations, anim.gen_count)
               THEN [anim EXCEPT !.pc = IF anim.renderer = "pygame"
                                        THEN "events" ELSE "callback"]
               ELSE [anim EXCEPT !.pc = "done"]
    /\ UNCHANGED <<width, height, grid, generation, last, advances, ctor, iter>>

\* PygameRenderer: for event in pygame.event.get(), with or without a QUIT,
\* ESC or Q among the events.
PollEvents(quit) ==
    /\ anim.pc = "events"
    /\ anim' = [anim EXCEPT !.pc = "callback",
                            !.running = IF quit THEN FALSE ELSE @,
                            !.stopped = @ \/ quit]
    /\ UNCHANGED <<width, height, grid, generation, last, advances, ctor, iter>>

\* update_callback(self.grid), with a callback that calls stop_animation()
\* or one that does nothing (or no callback).
UpdateCallback(stop) ==
    /\ anim.pc = "callback"
    /\ anim' = [anim EXCEPT !.pc = "render",
                            !.running = IF stop THEN FALSE ELSE @,
                            !.stopped = @ \/ stop]
    /\ UNCHANGED <<width, height, grid, generation, last, advances, ctor, iter>>

\* self.render_frame(): shows the grid's generation and cells
RenderFrame ==
    /\ anim.pc = "render"
    /\ anim' = [anim EXCEPT !.pc = "compute", !.frames = Append(@, generation)]
    /\ UNCHANGED <<width, height, grid, generation, last, advances, ctor, iter>>

\* self.grid.next_generation(), first pass
NextGenerationCompute ==
    /\ anim.pc = "compute"
    /\ anim' = [anim EXCEPT !.pc = "apply", !.applied = 0,
                            !.new_states = NextStates(grid, width, height)]
    /\ UNCHANGED <<width, height, grid, generation, last, advances, ctor, iter>>

\* self.grid.next_generation(), one set_cell of the second pass
NextGenerationApply ==
    /\ anim.pc = "apply"
    /\ anim.applied < width * height
    /\ LET x == anim.applied % width
           y == anim.applied \div width
       IN  grid' = SetCell(grid, width, height, x, y, anim.new_states[<<x, y>>])
    /\ anim' = [anim EXCEPT !.applied = @ + 1]
    /\ UNCHANGED <<width, height, generation, last, advances, ctor, iter>>

\* self.grid.next_generation(), the increment after the second pass
NextGenerationIncrement ==
    /\ anim.pc = "apply"
    /\ anim.applied >= width * height
    /\ generation' = NextGenerationCounter(generation)
    /\ advances' = advances + 1
    /\ anim' = [anim EXCEPT !.pc = "count", !.applied = 0, !.new_states = <<>>]
    /\ UNCHANGED <<width, height, grid, last, ctor, iter>>

\* gen_count += 1 and the wait for the next frame
CountFrame ==
    /\ anim.pc = "count"
    /\ anim' = [anim EXCEPT !.pc = "while", !.gen_count = @ + 1]
    /\ UNCHANGED <<width, height, grid, generation, last, advances, ctor, iter>>

\* ConsoleRenderer: Ctrl+C raises KeyboardInterrupt at any point of the try
\* block; the except clause clears running and start_animation returns.
KeyboardInterrupt ==
    /\ anim.renderer = "console"
    /\ anim.pc \in {"while", "callback", "render", "compute", "apply", "count"}
    /\ anim' = [anim EXCEPT !.pc = "done", !.running = FALSE, !.stopped = TRUE]
    /\ UNCHANGED <<width, height, grid, generation, last, advances, ctor, iter>>

----------------------------------------------------------------------------
(* Spec: the life of a Grid(w, h): any sequence of set_cell, toggle_cell,  *)
(* next_generation and clear.                                              *)

Init ==
    /\ width \in 1 .. MaxW
    /\ height \in 1 .. MaxH
    /\ grid = NewGrid(width, height)
    /\ generation = 0
    /\ advances = 0
    /\ ctor = CtorGrid(width, height)
    /\ Alone
    /\ last = Call("Grid", 0, 0, FALSE, 0, FALSE, "none", NoAddr, NoGrid)

NextGenerationStep == Advance(MaxGen)

Next ==
    \/ \E x \in 0 .. width - 1, y \in 0 .. height - 1, alive \in BOOLEAN :
          SetCellStep(x, y, alive)
    \/ \E x \in 0 .. width - 1, y \in 0 .. height - 1 : ToggleCellStep(x, y)
    \/ NextGenerationStep
    \/ ClearStep

Spec == Init /\ [][Next]_vars

----------------------------------------------------------------------------
(* SpecCall: one call of count_live_neighbors, next_generation or clear on *)
(* a grid in any state that set_cell and next_generation can produce.      *)

\* Every assignment of alive/dead to the cells of a w x h grid.
Storages(w, h) == [0 .. h - 1 -> [0 .. w - 1 -> BOOLEAN]]

InitCall ==
    /\ width \in 1 .. CallW
    /\ height \in 1 .. CallH
    /\ grid \in Storages(width, height)
    /\ generation \in 0 .. CallGen
    /\ advances = generation
    /\ ctor = CtorGrid(width, height)
    /\ Alone
    /\ last = Idle

CallNextGeneration == last = Idle /\ Advance(CallGen + 1)

CallClear == last = Idle /\ ClearStep

CallCount(x, y) == last = Idle /\ CountLiveNeighborsStep(x, y)

NextCall ==
    \/ CallNextGeneration
    \/ CallClear
    \/ \E x \in -1 .. width, y \in -1 .. height : CallCount(x, y)

SpecCall == InitCall /\ [][NextCall]_vars

----------------------------------------------------------------------------
(* SpecCell: one call that addresses a single Cell, at any integer         *)
(* coordinate, on a grid in any state.                                     *)

Coords == -MaxCoord .. MaxCoord

InitCell ==
    /\ width \in 1 .. CellW
    /\ height \in 1 .. CellH
    /\ grid \in Storages(width, height)
    /\ generation = 0
    /\ advances = 0
    /\ ctor = CtorGrid(width, height)
    /\ Alone
    /\ last = Idle

NextCell ==
    \/ \E x \in Coords, y \in Coords : last = Idle /\ GetCellStep(x, y)
    \/ \E x \in Coords, y \in Coords, alive \in BOOLEAN :
          last = Idle /\ SetCellStep(x, y, alive)
    \/ \E x \in Coords, y \in Coords : last = Idle /\ ToggleCellStep(x, y)
    \/ \E x \in 0 .. width - 1, y \in 0 .. height - 1, n \in -1 .. MaxN :
          last = Idle /\ WillBeAliveStep(x, y, n)

SpecCell == InitCell /\ [][NextCell]_vars

----------------------------------------------------------------------------
(* SpecFromPattern: one call of from_pattern with a rectangular pattern.   *)

\* The rectangular patterns pw wide and ph high.
Rectangles(pw, ph) == [1 .. ph -> [1 .. pw -> BOOLEAN]]

\* None, or an explicit size from 1 to slack more than the pattern's.
Sizes(psize, slack) == {<<>>} \cup {<<n>> : n \in 1 .. psize + slack}

\* Before the constructor call described by c.
InitUnbuilt(c) ==
    /\ ctor = c
    /\ Alone
    /\ width = 0
    /\ height = 0
    /\ grid = NoGrid
    /\ generation = 0
    /\ advances = 0
    /\ last = Unbuilt

InitFromPattern ==
    \E pw \in 1 .. PatW, ph \in 1 .. PatH :
      \E pattern \in Rectangles(pw, ph) :
        \E optw \in Sizes(pw, PatSlack), opth \in Sizes(ph, PatSlack) :
          InitUnbuilt(CtorFromPattern(pattern, optw, opth))

NextFromPattern == FromPatternStep

SpecFromPattern == InitFromPattern /\ [][NextFromPattern]_vars

----------------------------------------------------------------------------
(* SpecPattern: a reference pattern, seeded by from_pattern and advanced.  *)

\* The smallest side each reference pattern is run on.
MinSide(pattern) ==
    IF pattern = Block THEN 4 ELSE IF pattern = Blinker THEN 5 ELSE 15

\* None, or an explicit size from the smallest side on.
Sides(pattern) ==
    {<<>>} \cup {<<n>> : n \in MinSide(pattern) .. MinSide(pattern) + SideExtra}

InitPattern ==
    \E pattern \in {Block, Blinker, Glider} :
      \E optw \in Sides(pattern), opth \in Sides(pattern) :
        InitUnbuilt(CtorFromPattern(pattern, optw, opth))

AdvancePattern == Advance(MaxPatGen)

NextPattern ==
    \/ FromPatternStep
    \/ AdvancePattern

SpecPattern == InitPattern /\ [][NextPattern]_vars

----------------------------------------------------------------------------
(* SpecConstruct: the constructions the specification rules out: Grid(w, h) *)
(* with any integers, and from_pattern with the empty pattern.             *)

\* None, or any explicit size.
AnySize == {<<>>} \cup {<<n>> : n \in -CtorMax .. CtorMax}

InitConstruct ==
    \/ \E w \in -CtorMax .. CtorMax, h \in -CtorMax .. CtorMax :
          InitUnbuilt(CtorGrid(w, h))
    \/ \E optw \in AnySize, opth \in AnySize :
          InitUnbuilt(CtorFromPattern(<<>>, optw, opth))

NextConstruct ==
    \/ GridStep
    \/ FromPatternStep

SpecConstruct == InitConstruct /\ [][NextConstruct]_vars

----------------------------------------------------------------------------
(* SpecScan: get_live_cells() consumed to its end on a grid in any state   *)
(* that nothing modifies, and called again afterwards.                     *)

InitScan ==
    /\ width \in 1 .. ScanW
    /\ height \in 1 .. ScanH
    /\ grid \in Storages(width, height)
    /\ generation = 0
    /\ advances = 0
    /\ ctor = CtorGrid(width, height)
    /\ Alone
    /\ last = Idle

ScanCall == iter.state \in {"none", "done"} /\ GetLiveCellsStep

NextScan ==
    \/ ScanCall
    \/ NextItemStep

SpecScan == InitScan /\ [][NextScan]_vars

----------------------------------------------------------------------------
(* SpecIter: get_live_cells() consumed step by step while the caller       *)
(* modifies the grid between the steps.                                    *)

InitIter ==
    /\ width \in 1 .. IterW
    /\ height \in 1 .. IterH
    /\ grid \in Storages(width, height)
    /\ generation = 0
    /\ advances = 0
    /\ ctor = CtorGrid(width, height)
    /\ Alone
    /\ last = Idle

NextIter ==
    \/ GetLiveCellsStep
    \/ NextItemStep
    \/ \E x \in 0 .. width - 1, y \in 0 .. height - 1, alive \in BOOLEAN :
          SetCellStep(x, y, alive)
    \/ \E x \in 0 .. width - 1, y \in 0 .. height - 1 : ToggleCellStep(x, y)
    \/ Advance(IterGen)
    \/ ClearStep

SpecIter == InitIter /\ [][NextIter]_vars

----------------------------------------------------------------------------
(* SpecToggle: toggle_cell at any integer coordinate on a grid in any      *)
(* state, followed by get_cell or toggle_cell at the same coordinate.      *)

InitToggle ==
    /\ width \in 1 .. TogW
    /\ height \in 1 .. TogH
    /\ grid \in Storages(width, height)
    /\ generation = 0
    /\ advances = 0
    /\ ctor = CtorGrid(width, height)
    /\ Alone
    /\ last = Idle

ToggleFirst(x, y) == last = Idle /\ ToggleCellStep(x, y)

ToggleAgain == last.op = "toggle_cell" /\ ToggleCellStep(last.x, last.y)

GetToggled == last.op = "toggle_cell" /\ GetCellStep(last.x, last.y)

NextToggle ==
    \/ \E x \in -TogCoord .. TogCoord, y \in -TogCoord .. TogCoord : ToggleFirst(x, y)
    \/ ToggleAgain
    \/ GetToggled

SpecToggle == InitToggle /\ [][NextToggle]_vars

----------------------------------------------------------------------------
(* SpecAnimation: one start_animation call of a ConsoleRenderer or a       *)
(* PygameRenderer on a grid in any state at a generation in 0 .. AnimGens, *)
(* with or without a generation limit. SpecAnimationFair: the same, when the loop keeps running.        *)

InitAnimation ==
    /\ width \in 1 .. AnimW
    /\ height \in 1 .. AnimH
    /\ grid \in Storages(width, height)
    /\ generation \in 0 .. AnimGens
    /\ advances = generation
    /\ ctor = CtorGrid(width, height)
    /\ iter = NoIter
    /\ anim \in {NewRenderer("console"), NewRenderer("pygame")}
    /\ last = Idle

\* The statements of the loop.
LoopStep ==
    \/ WhileTest
    \/ \E quit \in BOOLEAN : PollEvents(quit)
    \/ \E stop \in BOOLEAN : UpdateCallback(stop)
    \/ RenderFrame
    \/ NextGenerationCompute
    \/ NextGenerationApply
    \/ NextGenerationIncrement
    \/ CountFrame

NextAnimation ==
    \/ \E n \in 0 .. AnimGens : StartAnimation(<<n>>)
    \/ StartAnimation(<<>>)
    \/ LoopStep
    \/ KeyboardInterrupt

SpecAnimation == InitAnimation /\ [][NextAnimation]_vars

SpecAnimationFair == SpecAnimation /\ WF_vars(LoopStep)

----------------------------------------------------------------------------
(* SpecAlias: the life of a Grid whose caller also uses the Cell objects   *)
(* that get_cell returns.                                                  *)

InitAlias ==
    /\ width \in 1 .. AliasW
    /\ height \in 1 .. AliasH
    /\ grid \in Storages(width, height)
    /\ generation = 0
    /\ advances = 0
    /\ ctor = CtorGrid(width, height)
    /\ Alone
    /\ last = Idle

NextAlias ==
    \/ \E x \in 0 .. width - 1, y \in 0 .. height - 1 : GetCellStep(x, y)
    \/ \E state \in BOOLEAN : CellSetStep(state)
    \/ CellToggleStep
    \/ \E x \in 0 .. width - 1, y \in 0 .. height - 1, alive \in BOOLEAN :
          SetCellStep(x, y, alive)
    \/ \E x \in 0 .. width - 1, y \in 0 .. height - 1 : ToggleCellStep(x, y)
    \/ Advance(AliasGen)
    \/ ClearStep

SpecAlias == InitAlias /\ [][NextAlias]_vars

----------------------------------------------------------------------------
(* SpecFrame: one call of any Grid method, at any integer coordinate, or   *)
(* one full get_live_cells() scan, on a grid in any state.                 *)

InitFrame ==
    /\ width \in 1 .. FrameW
    /\ height \in 1 .. FrameH
    /\ grid \in Storages(width, height)
    /\ generation \in 0 .. FrameGen
    /\ advances = generation
    /\ ctor = CtorGrid(width, height)
    /\ Alone
    /\ last = Idle

\* One call, on a grid on which none has been made.
FrameCall ==
    /\ last = Idle
    /\ \/ \E x \in -FrameCoord .. FrameCoord, y \in -FrameCoord .. FrameCoord :
             \/ GetCellStep(x, y)
             \/ \E alive \in BOOLEAN : SetCellStep(x, y, alive)
             \/ ToggleCellStep(x, y)
             \/ CountLiveNeighborsStep(x, y)
       \/ GetLiveCellsStep
       \/ Advance(FrameGen + 1)
       \/ ClearStep

NextFrame ==
    \/ FrameCall
    \/ NextItemStep

SpecFrame == InitFrame /\ [][NextFrame]_vars

----------------------------------------------------------------------------
(* SpecShift: one next_generation call on a grid in any state, at any      *)
(* generation in 0 .. ShiftGen.                                            *)

InitShift ==
    /\ width \in 1 .. ShiftW
    /\ height \in 1 .. ShiftH
    /\ grid \in Storages(width, height)
    /\ generation \in 0 .. ShiftGen
    /\ advances = generation
    /\ ctor = CtorGrid(width, height)
    /\ Alone
    /\ last = Idle

NextShift == last = Idle /\ Advance(ShiftGen + 1)

SpecShift == InitShift /\ [][NextShift]_vars

----------------------------------------------------------------------------
(* SpecWrapPattern: one call of from_pattern with a rectangular pattern    *)
(* and sizes omitted or explicit, from 1 up to the pattern's own.          *)

InitWrapPattern ==
    \E pw \in 1 .. WrapW, ph \in 1 .. WrapH :
      \E pattern \in Rectangles(pw, ph) :
        \E optw \in Sizes(pw, 0), opth \in Sizes(ph, 0) :
          InitUnbuilt(CtorFromPattern(pattern, optw, opth))

NextWrapPattern == FromPatternStep

SpecWrapPattern == InitWrapPattern /\ [][NextWrapPattern]_vars

----------------------------------------------------------------------------
(* The properties checked. *)

\* The eight offsets of a cell's neighbours.
Deltas == ({-1, 0, 1} \X {-1, 0, 1}) \ {<<0, 0>>}

\* The number of offsets at which the cell (x, y) of g has a live toroidal neighbour.
LiveAround(g, w, h, x, y) ==
    Cardinality({d \in Deltas : g[(y + d[2]) % h][(x + d[1]) % w]})

\* The coordinates of the live cells of the grid.
Live == {c \in (0 .. width - 1) \X (0 .. height - 1) : grid[c[2]][c[1]]}

\* The r in 0 .. n-1 that differs from a by a multiple of n.
Wrapped(a, n) ==
    CHOOSE r \in 0 .. n - 1 : \E k \in -(MaxCoord + 1) .. MaxCoord + 1 : a = r + k * n

\* C1: one next_generation leaves every cell (x, y) equal to will_be_alive of
\* its state before the call and of the number of its live toroidal neighbours
\* before the call: the snapshot-then-apply result.
C1_SynchronousUpdate ==
    last.op = "next_generation" =>
        \A x \in 0 .. width - 1, y \in 0 .. height - 1 :
            grid[y][x] = WillBeAlive(last.pre[y][x],
                                     LiveAround(last.pre, width, height, x, y))

\* C1 witness: an advance whose result a row-major in-place update would not give.
C1_Witness ==
    /\ last.op = "next_generation"
    /\ grid # NextGenerationInPlace(last.pre, width, height)

\* C2: for n in 0 .. 8, will_be_alive of a live cell is true exactly when n is
\* 2 or 3, of a dead cell exactly when n is 3, and the call leaves the cell as
\* it was.
C2_Rules ==
    (last.op = "will_be_alive" /\ last.n \in 0 .. 8) =>
        LET was == last.pre[last.addr[2]][last.addr[1]]
        IN  /\ was => (last.ret <=> last.n \in {2, 3})
            /\ ~was => (last.ret <=> last.n = 3)
            /\ grid = last.pre

\* C2 witness: a live cell asked about four neighbours, which is to die.
C2_Witness ==
    /\ last.op = "will_be_alive"
    /\ last.n = 4
    /\ last.pre[last.addr[2]][last.addr[1]]
    /\ ~last.ret

\* C3: the generation counter is 0 on a new Grid and after clear, and always
\* equals the number of next_generation calls since construction or the last
\* clear.
C3_GenerationCounter ==
    /\ generation = advances
    /\ last.op \in {"Grid", "clear"} => generation = 0

\* C3 witness: the second advance in a row.
C3_Witness == last.op = "next_generation" /\ advances = 2

\* C4: get_cell, set_cell and toggle_cell raise nothing at any integer
\* coordinate and address the cell (x mod width, y mod height): get_cell
\* returns that cell's state, set_cell leaves it at the state given and
\* toggle_cell returns the state it leaves it in; (width, 0) is the cell (0, 0)
\* and (-1, 0) is the cell (width - 1, 0).
C4_Wraparound ==
    last.op \in {"get_cell", "set_cell", "toggle_cell"} =>
        LET cx == Wrapped(last.x, width)
            cy == Wrapped(last.y, height)
        IN  /\ last.err = "none"
            /\ last.addr = <<cx, cy>>
            /\ (last.x = width /\ last.y = 0) => last.addr = <<0, 0>>
            /\ (last.x = -1 /\ last.y = 0) => last.addr = <<width - 1, 0>>
            /\ last.op = "get_cell" => last.ret = grid[cy][cx]
            /\ last.op = "set_cell" => grid[cy][cx] = last.alive
            /\ last.op = "toggle_cell" => last.ret = grid[cy][cx]

\* C4 witness: get_cell(-1, height) returned the live cell (width - 1, 0) of a
\* grid whose other cells are dead.
C4_Witness ==
    /\ last.op = "get_cell"
    /\ last.x = -1
    /\ last.y = height
    /\ last.ret
    /\ width = 2
    /\ Live = {<<width - 1, 0>>}

\* C5: count_live_neighbors(x, y) is in 0 .. 8 and does not depend on the
\* state of the cell (x, y) itself.
C5_NeverCountsItself ==
    last.op = "count_live_neighbors" =>
        /\ last.ret \in 0 .. 8
        /\ \A b \in BOOLEAN :
              CountLiveNeighbors(SetCell(grid, width, height, last.x, last.y, b),
                                 width, height, last.x, last.y) = last.ret

\* C9: clear leaves every cell dead and the generation at 0, keeps the width
\* and height the grid was built with, and a second clear changes nothing.
C9_Clear ==
    last.op = "clear" =>
        /\ \A x \in 0 .. width - 1, y \in 0 .. height - 1 : ~grid[y][x]
        /\ generation = 0
        /\ <<width>> = ctor.width /\ <<height>> = ctor.height
        /\ DOMAIN grid = 0 .. height - 1
        /\ \A y \in DOMAIN grid : DOMAIN grid[y] = 0 .. width - 1
        /\ ClearGrid(grid, width, height) = grid
        /\ ClearCounter = generation

\* C9 witness: clear of a 3 x 2 grid with live cells in both rows, at generation 1.
C9_Witness ==
    /\ last.op = "clear"
    /\ width = 3 /\ height = 2
    /\ last.pregen = 1
    /\ \A y \in 0 .. 1 : \E x \in 0 .. 2 : last.pre[y][x]

\* The cells that a pattern centred in a w x h grid covers with true entries:
\* its top-left corner is at ((w - pw) div 2, (h - ph) div 2), rounded down.
Placed(pattern, w, h) ==
    LET ph == Len(pattern)
        pw == Len(pattern[1])
        sx == (w - pw) \div 2
        sy == (h - ph) \div 2
    IN  {<<sx + q[1], sy + q[2]>> :
            q \in {r \in (0 .. pw - 1) \X (0 .. ph - 1) : pattern[r[2] + 1][r[1] + 1]}}

\* A grid seeded with the given pattern, with sides of at least min.
Seeded(pattern, min) ==
    /\ last.op \in {"from_pattern", "next_generation"}
    /\ ctor.pattern = pattern
    /\ width >= min
    /\ height >= min

\* C6: the block seeded by from_pattern in a grid of at least 4 x 4 is a still
\* life: at every generation the live cells are exactly its four cells.
C6_BlockStillLife ==
    Seeded(Block, 4) =>
        LET sx == (width - 2) \div 2
            sy == (height - 2) \div 2
        IN  Live = {sx, sx + 1} \X {sy, sy + 1}

\* C6 witness: the block in a 4 x 4 grid after ten advances.
C6_Witness == Seeded(Block, 4) /\ width = 4 /\ height = 4 /\ generation = 10

\* C7: the blinker seeded by from_pattern in a grid of at least 5 x 5 differs
\* from its initial live cells after one advance and is back at them after
\* every even number of advances.
C7_BlinkerPeriod2 ==
    Seeded(Blinker, 5) =>
        /\ generation = 1 => Live # Placed(Blinker, width, height)
        /\ generation % 2 = 0 => Live = Placed(Blinker, width, height)

\* C7 witness: the blinker in a 5 x 5 grid after two advances.
C7_Witness == Seeded(Blinker, 5) /\ width = 5 /\ height = 5 /\ generation = 2

\* C8: the glider seeded by from_pattern in a grid of at least 15 x 15 is,
\* after every 4k advances, its initial live cells moved by (+k, +k) modulo the
\* width and height.
C8_GliderTranslation ==
    (Seeded(Glider, 15) /\ generation % 4 = 0) =>
        LET k == generation \div 4
        IN  Live = {<<(c[1] + k) % width, (c[2] + k) % height>> :
                       c \in Placed(Glider, width, height)}

\* C8 witness: the glider in a 15 x 15 grid after 28 advances, across the right edge.
C8_Witness ==
    /\ Seeded(Glider, 15)
    /\ width = 15 /\ height = 15
    /\ generation = 28
    /\ \E c \in Live : c[1] = 0
    /\ \E c \in Live : c[1] = width - 1

\* C10: from_pattern takes the pattern's size plus 10 for an omitted width or
\* height and, when the grid is at least as large as the pattern, returns a
\* generation-0 grid whose live cells are exactly the pattern's true cells
\* with the pattern's corner at ((width - pw) div 2, (height - ph) div 2).
C10_FromPattern ==
    last.op = "from_pattern" =>
        LET ph == Len(ctor.pattern)
            pw == Len(ctor.pattern[1])
        IN  /\ ctor.width = <<>> => width = pw + 10
            /\ ctor.height = <<>> => height = ph + 10
            /\ ctor.width # <<>> => width = ctor.width[1]
            /\ ctor.height # <<>> => height = ctor.height[1]
            /\ (width >= pw /\ height >= ph) =>
                  /\ generation = 0
                  /\ Live = Placed(ctor.pattern, width, height)

\* C10 witness: a 2 x 2 diagonal pattern, the width omitted and the height 3,
\* so that the vertical offset is rounded down.
C10_Witness ==
    /\ last.op = "from_pattern"
    /\ ctor.pattern = << <<TRUE, FALSE>>, <<FALSE, TRUE>> >>
    /\ ctor.width = <<>>
    /\ ctor.height = <<3>>
    /\ Live = {<<5, 0>>, <<6, 1>>}

\* C11: a Grid that exists has a positive width and height, since constructing
\* one with a size <= 0 fails; a Grid just constructed has every cell dead and
\* generation 0.
C11_PositiveSize ==
    (ctor.kind = "Grid" /\ last # Unbuilt) =>
        /\ width > 0 /\ height > 0
        /\ \A y \in DOMAIN grid : \A x \in DOMAIN grid[y] : ~grid[y][x]
        /\ generation = 0

\* C12: from_pattern with the empty pattern reports an error and returns no
\* Grid, whatever width and height are given.
C12_EmptyPatternFails ==
    (ctor.kind = "from_pattern" /\ ctor.pattern = <<>> /\ last # Unbuilt) =>
        /\ last.err # "none"
        /\ grid = NoGrid /\ width = 0 /\ height = 0

\* The coordinates of the alive cells of g in row-major order.
RowMajor(g, w, h) ==
    SelectSeq([i \in 1 .. w * h |-> <<(i - 1) % w, (i - 1) \div w>>],
              LAMBDA c : g[c[2]][c[1]])

\* C13: on a grid nobody modifies, get_live_cells() consumed to its end has
\* yielded in-range coordinates of alive cells only, every alive cell exactly
\* once, rows in ascending y and each row in ascending x, and at most
\* width * height of them.
C13_RowMajorScan ==
    iter.state = "done" =>
        /\ \A i \in 1 .. Len(iter.out) :
              /\ iter.out[i][1] \in 0 .. width - 1
              /\ iter.out[i][2] \in 0 .. height - 1
              /\ grid[iter.out[i][2]][iter.out[i][1]]
        /\ \A x \in 0 .. width - 1, y \in 0 .. height - 1 :
              grid[y][x] =>
                  Cardinality({i \in 1 .. Len(iter.out) : iter.out[i] = <<x, y>>}) = 1
        /\ \A i \in 1 .. Len(iter.out), j \in 1 .. Len(iter.out) :
              i < j => \/ iter.out[i][2] < iter.out[j][2]
                       \/ /\ iter.out[i][2] = iter.out[j][2]
                          /\ iter.out[i][1] < iter.out[j][1]
        /\ Len(iter.out) <= width * height

\* A scan has ended that yielded (1, 0) before (0, 1), on a grid with a dead cell.
C13_Witness ==
    /\ iter.state = "done"
    /\ \E i \in 1 .. Len(iter.out) :
          /\ i < Len(iter.out)
          /\ iter.out[i] = <<1, 0>>
          /\ iter.out[i + 1] = <<0, 1>>
    /\ \E x \in 0 .. width - 1, y \in 0 .. height - 1 : ~grid[y][x]

\* C14: what one get_live_cells() call produces is what a full scan at the
\* time of the call shows, whatever set_cell, toggle_cell, next_generation
\* and clear do to the grid between the steps of its consumption.
C14_ScanAtCallTime ==
    /\ iter.state = "suspended" =>
          \E n \in 0 .. Len(RowMajor(iter.snap, width, height)) :
              iter.out = SubSeq(RowMajor(iter.snap, width, height), 1, n)
    /\ iter.state = "done" => iter.out = RowMajor(iter.snap, width, height)

\* C15: toggle_cell(x, y) flips the cell at (x mod width, y mod height) and
\* returns the state it leaves it in, which a get_cell(x, y) right after it
\* reports too; a second toggle_cell(x, y) right after it restores the grid
\* as it was before the first.
C15_Toggle ==
    [][LET cx == Wrapped(last'.x, width)
           cy == Wrapped(last'.y, height)
       IN  /\ last'.op = "toggle_cell" =>
                 /\ last'.err = "none"
                 /\ grid'[cy][cx] = ~grid[cy][cx]
                 /\ last'.ret = grid'[cy][cx]
           /\ (last.op = "toggle_cell" /\ last'.op = "get_cell"
                 /\ last'.x = last.x /\ last'.y = last.y) =>
                 last'.ret = last.ret
           /\ (last.op = "toggle_cell" /\ last'.op = "toggle_cell"
                 /\ last'.x = last.x /\ last'.y = last.y) =>
                 grid' = last.pre]_vars

\* C15 witness: toggle_cell(-1, 0) has brought the cell
\* (width - 1, 0) of a grid two cells wide to life and changed no other.
C15_Witness ==
    /\ last.op = "toggle_cell" /\ last.x = -1 /\ last.y = 0
    /\ width = 2
    /\ last.ret /\ grid[0][1]
    /\ last.pre # NoGrid /\ ~last.pre[0][1]
    /\ \E x \in 0 .. width - 1 : grid[0][x] # last.pre[0][x]

\* The storage g after n whole next_generation calls.
RECURSIVE Iterated(_, _, _, _)
Iterated(g, w, h, n) ==
    IF n <= 0 THEN g ELSE Iterated(NextGenerationGrid(g, w, h), w, h, n - 1)

\* C16: whenever the console animation has ended, by a user interrupt at any
\* point of the loop or otherwise, the cells are those that generation - g0
\* whole advance steps make of the seeded state.
C16_AtomicAdvance ==
    (anim.renderer = "console" /\ anim.pc = "done") =>
        /\ generation >= anim.g0
        /\ grid = Iterated(anim.seed, width, height, generation - anim.g0)

\* C17: the loop renders, then advances, once per frame: inside the loop the
\* frames shown are one ahead of the advances made while next_generation runs
\* and level with them otherwise; a run with limit N that no stop request has reached ends,
\* after N frames showing g0, g0 + 1, ..., g0 + N - 1 and N advances, with the
\* grid N generations on (untouched when N = 0).
C17_FramePerGeneration ==
    /\ [](anim.pc # "idle" =>
            /\ anim.pc \in {"compute", "apply"} =>
                  Len(anim.frames) = generation - anim.g0 + 1
            /\ anim.pc \in {"while", "events", "callback", "render", "count"} =>
                  Len(anim.frames) = generation - anim.g0
            /\ (anim.pc = "done" /\ ~anim.stopped) =>
                  /\ anim.generations # <<>>
                  /\ Len(anim.frames) = anim.generations[1]
                  /\ \A k \in 1 .. Len(anim.frames) :
                        anim.frames[k] = anim.g0 + k - 1
                  /\ anim.gen_count = anim.generations[1]
                  /\ generation = anim.g0 + anim.generations[1]
                  /\ grid = Iterated(anim.seed, width, height, anim.generations[1]))
    /\ (anim.pc # "idle" /\ anim.generations # <<>>) ~> anim.pc = "done"

\* C17 witness: a run with limit 2 from generation 1 has ended unstopped, having
\* shown generations 1 and 2 and changed the grid.
C17_Witness ==
    /\ anim.pc = "done" /\ ~anim.stopped
    /\ anim.generations = <<2>>
    /\ anim.frames = <<1, 2>>
    /\ generation = 3
    /\ grid # anim.seed

\* C18: once a stop request has reached the loop (a QUIT, ESC or Q event, or
\* stop_animation() called from the update callback), no render_frame call
\* and no next_generation call begins.
C18_StopsAtOnce ==
    [][anim.stopped =>
          /\ anim'.frames = anim.frames
          /\ ~(anim.pc = "compute" /\ anim'.pc = "apply")]_vars

\* C19: no cell changes state except through set_cell, toggle_cell,
\* next_generation and clear; what get_cell returns is no means to change one.
C19_NoAliasing ==
    [][grid' # grid =>
          last'.op \in {"set_cell", "toggle_cell", "next_generation", "clear"}]_vars

\* C20: no call changes width or height; set_cell and toggle_cell leave the
\* generation and every cell but the one at the normalized coordinate as they
\* were; get_cell, count_live_neighbors and the steps of a get_live_cells scan
\* change neither cells nor generation; so a step that changes the generation
\* is a next_generation or a clear.
C20_FrameEffects ==
    [][/\ width' = width
       /\ height' = height
       /\ last'.op \in {"set_cell", "toggle_cell"} =>
             /\ generation' = generation
             /\ \A x \in 0 .. width - 1, y \in 0 .. height - 1 :
                   <<x, y>> # <<Wrapped(last'.x, width), Wrapped(last'.y, height)>>
                       => grid'[y][x] = grid[y][x]
       /\ last'.op \in {"get_cell", "count_live_neighbors", "get_live_cells", "next"} =>
             /\ generation' = generation
             /\ grid' = grid
       /\ generation' # generation => last'.op \in {"next_generation", "clear"}]_vars

\* C20 witness: set_cell(-1, 2, FALSE) has acted on a 2 x 2 grid at generation
\* 1, whose cell (1, 0) is dead and whose three other cells are alive.
C20_Witness ==
    /\ last.op = "set_cell" /\ last.x = -1 /\ last.y = 2 /\ ~last.alive
    /\ width = 2 /\ height = 2 /\ generation = 1
    /\ ~grid[0][1] /\ grid[0][0] /\ grid[1][0] /\ grid[1][1]

\* The storage g with every cell moved by (a, b) around the torus.
Translated(g, w, h, a, b) ==
    [y \in 0 .. h - 1 |-> [x \in 0 .. w - 1 |-> g[(y - b) % h][(x - a) % w]]]

\* C21: next_generation commutes with translation around the torus: for every
\* shift (a, b), advancing the translated cells gives the translated result of
\* the advance, whatever the generation counter was.
C21_TranslationCommutes ==
    last.op = "next_generation" =>
        \A a \in 0 .. width - 1, b \in 0 .. height - 1 :
            NextGenerationGrid(Translated(last.pre, width, height, a, b),
                               width, height)
                = Translated(grid, width, height, a, b)

\* C21 witness: an advance from generation 1 on a 3 x 2 grid that changed the
\* cells and left a result that its shift by (1, 1) differs from.
C21_Witness ==
    /\ last.op = "next_generation" /\ last.pregen = 1
    /\ width = 3 /\ height = 2
    /\ grid # last.pre
    /\ Translated(grid, width, height, 1, 1) # grid

TrueCells(pattern) ==
    {q \in (0 .. Len(pattern[1]) - 1) \X (0 .. Len(pattern) - 1) :
        pattern[q[2] + 1][q[1] + 1]}

\* C23: from_pattern with an explicit width or height smaller than the
\* pattern raises nothing and returns a grid of the sizes given: the offset
\* sx = (width - pw) // 2 or sy = (height - ph) // 2 of the smaller side is
\* negative, the live cells are the ((sx + px) mod width, (sy + py) mod height)
\* of the true pattern cells (px, py), and there are at most as many of them
\* as true pattern cells.
C23_SmallerThanPattern ==
    LET ph == Len(ctor.pattern)
        pw == Len(ctor.pattern[1])
        sx == (width - pw) \div 2
        sy == (height - ph) \div 2
    IN  (/\ last.op = "from_pattern"
         /\ \/ ctor.width # <<>> /\ ctor.width[1] < pw
            \/ ctor.height # <<>> /\ ctor.height[1] < ph) =>
            /\ last.err = "none"
            /\ ctor.width # <<>> => width = ctor.width[1]
            /\ ctor.height # <<>> => height = ctor.height[1]
            /\ generation = 0
            /\ width < pw => sx < 0
            /\ height < ph => sy < 0
            /\ Live = {<<(sx + q[1]) % width, (sy + q[2]) % height>> :
                          q \in TrueCells(ctor.pattern)}
            /\ Cardinality(Live) <= Cardinality(TrueCells(ctor.pattern))

\* C23 witness: the row (alive, dead, alive) placed in a grid 2 wide and 1 high
\* has both its true cells on the cell (1, 0).
C23_Witness ==
    /\ last.op = "from_pattern"
    /\ ctor.pattern = << <<TRUE, FALSE, TRUE>> >>
    /\ ctor.width = <<2>> /\ ctor.height = <<1>>
    /\ Live = {<<1, 0>>}

====
